---- MODULE Spec2Model ----
(***************************************************************************)
(* Robot simulator (src/src/robots.h, src/obstacle.h): the scene registry  *)
(* of MainWindow (autonomousRobots, remoteRobots, the scene's obstacles,   *)
(* selectedRobot, timer) and the per-tick update of the robots.            *)
(*                                                                         *)
(* Arithmetic.  The source keeps positions in double.  The model keeps     *)
(* them in fixed point, Scale units per pixel, and cos/sin as hundredths   *)
(* (Cos100, Sin100) on the multiples of 15 degrees, so that                *)
(* 0.1 * speed * cos(a) is the integer speed * Cos100(a) in model units.   *)
(* Orientation and avoidance angle are integers of degrees.                *)
(***************************************************************************)
EXTENDS Integers, Sequences, FiniteSets, TLC

\* ------------------------------------------------------------------ bounds
MaxAuto == 2
MaxRemote == 2
MaxObstacles == 1
MaxTicks == 3

\* inputs of the creation dialogs (pixels, degrees)
RobotXs == {100, 200}
RobotYs == {100}
OrientCodes == {1, 3}
Speeds == {50}
DetectionRadii == {50}
AvoidanceAngles == {15, -90}
ObstacleXs == {110, 150}
ObstacleYs == {90}
ObstacleWidths == {20}

\* ------------------------------------------------------- program constants
Scale == 1000
RobotRadius == 20
TanPiSixth1000 == 577

NoRotation == "NoRotation"
RotateLeft == "RotateLeft"
RotateRight == "RotateRight"

VARIABLES autonomousRobots, remoteRobots, obstacles, selectedRobot,
          timerActive, ticks, updateLog, lastOp

vars == <<autonomousRobots, remoteRobots, obstacles, selectedRobot,
          timerActive, ticks, updateLog, lastOp>>

\* --------------------------------------------------------------- geometry
Abs(n) == IF n < 0 THEN -n ELSE n

Min(a, b) == IF a < b THEN a ELSE b

\* cos(a degrees) * 100, a a multiple of 15, any sign and any size
CosTable(m) ==
    CASE m = 0 -> 100 [] m = 15 -> 97 [] m = 30 -> 87 [] m = 45 -> 71
      [] m = 60 -> 50 [] m = 75 -> 26 [] m = 90 -> 0

Cos100(a) ==
    LET m == a % 360
    IN  IF m <= 90 THEN CosTable(m)
        ELSE IF m <= 180 THEN -CosTable(180 - m)
        ELSE IF m <= 270 THEN -CosTable(m - 180)
        ELSE CosTable(360 - m)

Sin100(a) == Cos100(a - 90)

\* QRectF as left, top, right, bottom, in model units
Rect(x, y, w, h) == [l |-> x, t |-> y, r |-> x + w, b |-> y + h]

\* QRectF::intersects: the rectangles share interior points
Intersects(p, q) == p.l < q.r /\ q.l < p.r /\ p.t < q.b /\ q.t < p.b

\* Robot::boundingRect mapped to the scene by the item's position
RobotRect(rob) ==
    Rect(rob.positionX - RobotRadius * Scale, rob.positionY - RobotRadius * Scale,
         2 * RobotRadius * Scale, 2 * RobotRadius * Scale)

\* Obstacle(x, y, width): a square with top-left corner (x, y)
ObstacleRect(o) == Rect(o.x * Scale, o.y * Scale, o.width * Scale, o.width * Scale)

\* ------------------------------------------------------------ the robots
\* a constructor that faces right unless the code is 2 or 3
AutonomousRobot_RightFirst(posX, posY, orient, detectRadius, avoidAngle, speed) ==
    [positionX |-> posX * Scale, positionY |-> posY * Scale, speed |-> speed,
     isMoving |-> FALSE,
     detectionRadius |-> detectRadius, avoidanceAngle |-> avoidAngle,
     orientation |-> CASE orient = 2 -> 90
                       [] orient = 3 -> 180
                       [] OTHER -> 0]

\* AutonomousRobot(posX, posY, orient, detectRadius, avoidAngle, speed)
AutonomousRobot(posX, posY, orient, detectRadius, avoidAngle, speed) ==
    [positionX |-> posX * Scale, positionY |-> posY * Scale, speed |-> speed,
     isMoving |-> FALSE,
     detectionRadius |-> detectRadius, avoidanceAngle |-> avoidAngle,
     orientation |-> CASE orient = 0 -> 270
                       [] orient = 1 -> 0
                       [] orient = 2 -> 90
                       [] orient = 3 -> 180
                       [] OTHER -> 0]

\* RemoteRobot(posX, posY, speed, detectionRadius)
RemoteRobot(posX, posY, speed, detectionRadius) ==
    [positionX |-> posX * Scale, positionY |-> posY * Scale, speed |-> speed,
     isMoving |-> FALSE, orientation |-> 0,
     detectionRadius |-> detectionRadius, rotationDirection |-> NoRotation]

\* The commands of RemoteRobot (declared in robots.h, bodies not in src/)
RemoteRobot_moveForward(rob) == [rob EXCEPT !.isMoving = TRUE]

RemoteRobot_stop(rob) == [rob EXCEPT !.isMoving = FALSE]

RemoteRobot_rotateRight(rob) == [rob EXCEPT !.rotationDirection = RotateRight]

RemoteRobot_rotateLeft(rob) == [rob EXCEPT !.rotationDirection = RotateLeft]

getRotationDirection(rob) == rob.rotationDirection

\* ------------------------------------------------------ obstacle detection
\* The field of vision drawn by paint(): a trapezoid in the robot's frame,
\* from RobotRadius to RobotRadius + detectionRadius along the heading, of
\* half width halfBaseWidth at the robot and halfTopWidth at the far edge.
\* Widths in thousandths of a pixel.
HalfTopWidth1000(rob) == rob.detectionRadius * TanPiSixth1000

HalfBaseWidth1000(rob) ==
    Min(HalfTopWidth1000(rob) \div 4, (RobotRadius * 1000) \div 3)

\* Is the scene point (px, py) inside the trapezoid of rob?  The point is
\* taken to the robot's frame (rotatePoint by -orientation) in tenths of a
\* pixel: along the heading and across it.
InFieldOfVision(rob, px, py) ==
    LET dx == ((px - rob.positionX) * 10) \div Scale
        dy == ((py - rob.positionY) * 10) \div Scale
        c == Cos100(rob.orientation)
        s == Sin100(rob.orientation)
        along == (dx * c + dy * s) \div 100
        across == (dy * c - dx * s) \div 100
        near == RobotRadius * 10
        depth == rob.detectionRadius * 10
        hb == HalfBaseWidth1000(rob)
        ht == HalfTopWidth1000(rob)
    IN  /\ rob.detectionRadius > 0
        /\ near <= along
        /\ along <= near + depth
        /\ Abs(across) * 100 * depth <= hb * depth + (ht - hb) * (along - near)

\* the corners and the centre of a rectangle
RectPoints(q) ==
    {<<q.l, q.t>>, <<q.r, q.t>>, <<q.l, q.b>>, <<q.r, q.b>>,
     <<(q.l + q.r) \div 2, (q.t + q.b) \div 2>>}

\* detectObstacle(): some obstacle or other robot lies in the field of vision
detectObstacle(rob, others) ==
    \E q \in others : \E p \in RectPoints(q) : InFieldOfVision(rob, p[1], p[2])

\* the regions of the scene items other than robot i of list kind
OtherItems(kind, i, A, R, O) ==
    {RobotRect(A[k]) : k \in {k \in 1..Len(A) : kind # "a" \/ k # i}}
    \cup {RobotRect(R[k]) : k \in {k \in 1..Len(R) : kind # "r" \/ k # i}}
    \cup {ObstacleRect(o) : o \in O}

\* ------------------------------------------------------------ update()
\* a step that jumps to the target
Interpolate_Full(position, target) == target

\* positionX += 0.1 * (targetX - positionX)
Interpolate(position, target) == position + (target - position) \div 10

\* targetX = positionX + speed * cos(radAngle), in model units
TargetX(rob) == rob.positionX + rob.speed * (Scale \div 100) * Cos100(rob.orientation)

TargetY(rob) == rob.positionY + rob.speed * (Scale \div 100) * Sin100(rob.orientation)

\* if (orientation < 0) orientation += 360; if (orientation >= 360) orientation -= 360;
Normalize(orientation) ==
    LET o1 == IF orientation < 0 THEN orientation + 360 ELSE orientation
    IN  IF o1 >= 360 THEN o1 - 360 ELSE o1

\* AutonomousRobot::update: move, normalize, then turn when something is seen
AutonomousRobot_update(rob, others) ==
    LET moved == [rob EXCEPT !.positionX = Interpolate(rob.positionX, TargetX(rob)),
                             !.positionY = Interpolate(rob.positionY, TargetY(rob)),
                             !.orientation = Normalize(rob.orientation)]
        det == detectObstacle(moved, others)
    IN  [rob |-> IF det
                 THEN [moved EXCEPT !.orientation = moved.orientation + rob.avoidanceAngle]
                 ELSE moved,
         det |-> det]

\* an update that keeps going when something is seen
RemoteRobot_update_NoStop(rob, others) ==
    LET moved == [rob EXCEPT !.positionX = Interpolate(rob.positionX, TargetX(rob)),
                             !.positionY = Interpolate(rob.positionY, TargetY(rob))]
    IN  [rob |-> moved, det |-> detectObstacle(moved, others)]

\* RemoteRobot::update: move, then stop when something is seen
RemoteRobot_update(rob, others) ==
    LET moved == [rob EXCEPT !.positionX = Interpolate(rob.positionX, TargetX(rob)),
                             !.positionY = Interpolate(rob.positionY, TargetY(rob))]
        det == detectObstacle(moved, others)
    IN  [rob |-> IF det THEN RemoteRobot_stop(moved) ELSE moved,
         det |-> det]

\* ------------------------------------------------------ MainWindow: tick
\* MainWindow::rotateRobotRight / rotateRobotLeft on the lists: the command
\* goes to selectedRobot (0 is nullptr), and only while the timer runs
rotateRobotRight_AnyTime(R, sel, active) ==
    IF sel # 0 THEN [R EXCEPT ![sel] = RemoteRobot_rotateRight(@)] ELSE R

rotateRobotRight(R, sel, active) ==
    IF sel # 0 /\ active THEN [R EXCEPT ![sel] = RemoteRobot_rotateRight(@)] ELSE R

rotateRobotLeft(R, sel, active) ==
    IF sel # 0 /\ active THEN [R EXCEPT ![sel] = RemoteRobot_rotateLeft(@)] ELSE R

\* updateRobots, lines 606-610: the pending rotation of remoteRobot is
\* handled by calling the main window's own rotate slots
HandleRotation(remoteRobot, R, sel, active) ==
    IF getRotationDirection(remoteRobot) = RotateRight THEN rotateRobotRight(R, sel, active)
    ELSE IF getRotationDirection(remoteRobot) = RotateLeft THEN rotateRobotLeft(R, sel, active)
    ELSE R

\* a scheduler that updates a remote robot whether or not it is moving
ShouldUpdate_Always(remoteRobot) == TRUE

\* updateRobots, line 611: if (remoteRobot->isMoving)
ShouldUpdate(remoteRobot) == remoteRobot.isMoving

\* first loop of updateRobots, from autonomous robot i on; the world is
\* [A, R, log]: both lists and the update() calls made so far
RECURSIVE UpdateAutonomous(_, _, _)
UpdateAutonomous(i, w, O) ==
    IF i > Len(w.A) THEN w
    ELSE LET u == AutonomousRobot_update(w.A[i], OtherItems("a", i, w.A, w.R, O))
         IN  UpdateAutonomous(i + 1,
                 [w EXCEPT !.A[i] = u.rob, !.log = Append(@, <<"a", i, u.det>>)], O)

\* second loop of updateRobots, from remote robot j on
RECURSIVE UpdateRemote(_, _, _, _, _)
UpdateRemote(j, w, O, sel, active) ==
    IF j > Len(w.R) THEN w
    ELSE LET R1 == HandleRotation(w.R[j], w.R, sel, active)
         IN  IF ShouldUpdate(R1[j])
             THEN LET u == RemoteRobot_update(R1[j], OtherItems("r", j, w.A, R1, O))
                  IN  UpdateRemote(j + 1,
                          [w EXCEPT !.R = [R1 EXCEPT ![j] = u.rob],
                                    !.log = Append(@, <<"r", j, u.det>>)],
                          O, sel, active)
             ELSE UpdateRemote(j + 1, [w EXCEPT !.R = R1], O, sel, active)

\* the two loops swapped: remote robots first
UpdateAll_RemoteFirst(A, R, O, sel, active) ==
    UpdateAutonomous(1, UpdateRemote(1, [A |-> A, R |-> R, log |-> <<>>],
                                     O, sel, active), O)

\* the two loops of updateRobots in their order
UpdateAll(A, R, O, sel, active) ==
    UpdateRemote(1, UpdateAutonomous(1, [A |-> A, R |-> R, log |-> <<>>], O),
                 O, sel, active)

\* ------------------------------------------------- MainWindow: the scene
\* an overlap check that looks at the obstacles only
FoundItems_ObstaclesOnly(area, A, R, O) ==
    {<<"o", o>> : o \in {o \in O : Intersects(area, ObstacleRect(o))}}

\* scene()->items(area): the items whose region intersects area
FoundItems(area, A, R, O) ==
    {<<"a", k>> : k \in {k \in 1..Len(A) : Intersects(area, RobotRect(A[k]))}}
    \cup {<<"r", k>> : k \in {k \in 1..Len(R) : Intersects(area, RobotRect(R[k]))}}
    \cup {<<"o", o>> : o \in {o \in O : Intersects(area, ObstacleRect(o))}}

\* QRectF creationArea(x - 20, y - 20, 40, 40)
CreationArea(x, y) ==
    Rect((x - RobotRadius) * Scale, (y - RobotRadius) * Scale,
         2 * RobotRadius * Scale, 2 * RobotRadius * Scale)

\* QRectF creationObstacleArea(x, y, width, width)
CreationObstacleArea(x, y, width) == Rect(x * Scale, y * Scale, width * Scale, width * Scale)

\* a message that names the robot alone when both kinds were found
Conflict_RobotFirst(found) ==
    LET robotFound == \E f \in found : f[1] \in {"a", "r"}
        obstacleFound == \E f \in found : f[1] = "o"
    IN  IF robotFound THEN "robot"
        ELSE IF obstacleFound THEN "obstacle"
        ELSE "none"

\* the message of a rejected placement: which kinds of item were found
Conflict(found) ==
    LET robotFound == \E f \in found : f[1] \in {"a", "r"}
        obstacleFound == \E f \in found : f[1] = "o"
    IN  IF robotFound /\ obstacleFound THEN "both"
        ELSE IF robotFound THEN "robot"
        ELSE IF obstacleFound THEN "obstacle"
        ELSE "none"

\* what the last operation was: its name, the request of a placement and its
\* outcome, the number of scene items it found (a placement) or destroyed
\* (clearScene), and the robot that was selected when it began
\* For createRobot also the orientation code asked for; for loadSceneFromFile
\* the lines of the file, whether it could be opened, and the processObject
\* calls the load made, in order.
Op(name) == [op |-> name, kind |-> "", x |-> 0, y |-> 0, width |-> 0,
             conflict |-> "none", items |-> 0, sel |-> selectedRobot,
             code |-> 0, file |-> <<>>, opened |-> FALSE, calls |-> <<>>]

Init ==
    /\ autonomousRobots = <<>>
    /\ remoteRobots = <<>>
    /\ obstacles = {}
    /\ selectedRobot = 0
    /\ timerActive = FALSE
    /\ ticks = 0
    /\ updateLog = <<>>
    /\ lastOp = [op |-> "init", kind |-> "", x |-> 0, y |-> 0, width |-> 0,
                 conflict |-> "none", items |-> 0, sel |-> 0,
                 code |-> 0, file |-> <<>>, opened |-> FALSE, calls |-> <<>>]

History(op) ==
    /\ lastOp' = op
    /\ updateLog' = <<>>

\* MainWindow::createRobot with the dialog accepted
createRobot ==
    \E robotType \in {0, 1}, x \in RobotXs, y \in RobotYs,
       speed \in Speeds, detectionRadius \in DetectionRadii :
        LET foundItems == FoundItems(CreationArea(x, y), autonomousRobots,
                                     remoteRobots, obstacles)
            op == [Op("createRobot") EXCEPT
                      !.kind = IF robotType = 0 THEN "a" ELSE "r",
                      !.x = x, !.y = y, !.conflict = Conflict(foundItems),
                      !.items = Cardinality(foundItems)]
        IN  /\ robotType = 0 => Len(autonomousRobots) < MaxAuto
            /\ robotType # 0 => Len(remoteRobots) < MaxRemote
            /\ IF foundItems # {}
               THEN /\ UNCHANGED <<autonomousRobots, remoteRobots>>
                    /\ History(op)
               ELSE IF robotType = 0
               THEN /\ \E orientation \in OrientCodes, avoidanceAngle \in AvoidanceAngles :
                           /\ autonomousRobots' = Append(autonomousRobots,
                                  AutonomousRobot(x, y, orientation, detectionRadius,
                                                  avoidanceAngle, speed))
                           /\ History([op EXCEPT !.code = orientation])
                    /\ UNCHANGED remoteRobots
               ELSE /\ remoteRobots' = Append(remoteRobots,
                           RemoteRobot(x, y, speed, detectionRadius))
                    /\ UNCHANGED autonomousRobots
                    /\ History(op)
            /\ UNCHANGED <<obstacles, selectedRobot, timerActive, ticks>>

\* MainWindow::createObstacle with the dialog accepted
createObstacle ==
    \E x \in ObstacleXs, y \in ObstacleYs, width \in ObstacleWidths :
        LET foundItems == FoundItems(CreationObstacleArea(x, y, width),
                                     autonomousRobots, remoteRobots, obstacles)
            op == [Op("createObstacle") EXCEPT
                      !.kind = "o", !.x = x, !.y = y, !.width = width,
                      !.conflict = Conflict(foundItems),
                      !.items = Cardinality(foundItems)]
        IN  /\ Cardinality(obstacles) < MaxObstacles \/ foundItems # {}
            /\ IF foundItems # {}
               THEN UNCHANGED obstacles
               ELSE obstacles' = obstacles \cup {[x |-> x, y |-> y, width |-> width]}
            /\ History(op)
            /\ UNCHANGED <<autonomousRobots, remoteRobots, selectedRobot, timerActive, ticks>>

\* MainWindow::selectRobot(robot), robot a remote robot of the scene
selectRobot ==
    \E robot \in 1..Len(remoteRobots) :
        /\ selectedRobot # robot
        /\ selectedRobot' = robot
        /\ History(Op("selectRobot"))
        /\ UNCHANGED <<autonomousRobots, remoteRobots, obstacles, timerActive, ticks>>

\* MainWindow::startSimulation
startSimulation ==
    /\ timerActive' = TRUE
    /\ History(Op("startSimulation"))
    /\ UNCHANGED <<autonomousRobots, remoteRobots, obstacles, selectedRobot, ticks>>

\* a stop button that leaves the timer as it is
stopSimulation_NoStop ==
    /\ timerActive' = timerActive
    /\ History(Op("stopSimulation"))
    /\ UNCHANGED <<autonomousRobots, remoteRobots, obstacles, selectedRobot, ticks>>

\* MainWindow::stopSimulation
stopSimulation ==
    /\ timerActive' = FALSE
    /\ History(Op("stopSimulation"))
    /\ UNCHANGED <<autonomousRobots, remoteRobots, obstacles, selectedRobot, ticks>>

\* a move button that toggles the moving flag
moveRobot_Toggle ==
    /\ remoteRobots' = IF selectedRobot # 0 /\ timerActive
                       THEN [remoteRobots EXCEPT ![selectedRobot].isMoving = ~@]
                       ELSE remoteRobots
    /\ History(Op("moveRobot"))
    /\ UNCHANGED <<autonomousRobots, obstacles, selectedRobot, timerActive, ticks>>

\* MainWindow::moveRobot; a robot of remoteRobots is always in the scene, so
\* selectedRobot->scene() is not null
moveRobot ==
    /\ remoteRobots' = IF selectedRobot # 0 /\ timerActive
                       THEN [remoteRobots EXCEPT ![selectedRobot] = RemoteRobot_moveForward(@)]
                       ELSE remoteRobots
    /\ History(Op("moveRobot"))
    /\ UNCHANGED <<autonomousRobots, obstacles, selectedRobot, timerActive, ticks>>

\* MainWindow::rotateRobotRight, from the button
rotateRightButton ==
    /\ remoteRobots' = rotateRobotRight(remoteRobots, selectedRobot, timerActive)
    /\ History(Op("rotateRobotRight"))
    /\ UNCHANGED <<autonomousRobots, obstacles, selectedRobot, timerActive, ticks>>

\* MainWindow::rotateRobotLeft, from the button
rotateLeftButton ==
    /\ remoteRobots' = rotateRobotLeft(remoteRobots, selectedRobot, timerActive)
    /\ History(Op("rotateRobotLeft"))
    /\ UNCHANGED <<autonomousRobots, obstacles, selectedRobot, timerActive, ticks>>

\* MainWindow::stopRobot
stopRobot ==
    /\ remoteRobots' = IF selectedRobot # 0
                       THEN [remoteRobots EXCEPT ![selectedRobot] = RemoteRobot_stop(@)]
                       ELSE remoteRobots
    /\ History(Op("stopRobot"))
    /\ UNCHANGED <<autonomousRobots, obstacles, selectedRobot, timerActive, ticks>>

\* MainWindow::updateRobots, on the timer's timeout
updateRobots ==
    /\ timerActive
    /\ ticks < MaxTicks
    /\ LET w == UpdateAll(autonomousRobots, remoteRobots, obstacles,
                          selectedRobot, timerActive)
       IN  /\ autonomousRobots' = w.A
           /\ remoteRobots' = w.R
           /\ updateLog' = w.log
    /\ ticks' = ticks + 1
    /\ lastOp' = Op("updateRobots")
    /\ UNCHANGED <<obstacles, selectedRobot, timerActive>>

\* a clearScene that forgets the list of remote robots
clearScene_KeepRemote ==
    /\ autonomousRobots' = <<>>
    /\ obstacles' = {}
    /\ selectedRobot' = 0
    /\ History(Op("clearScene"))
    /\ UNCHANGED <<remoteRobots, timerActive, ticks>>

\* MainWindow::clearScene
clearScene ==
    /\ autonomousRobots' = <<>>
    /\ remoteRobots' = <<>>
    /\ obstacles' = {}
    /\ selectedRobot' = 0
    /\ History([Op("clearScene") EXCEPT
                   !.items = Len(autonomousRobots) + Len(remoteRobots)
                             + Cardinality(obstacles)])
    /\ UNCHANGED <<timerActive, ticks>>

\* ------------------------------------------------ MainWindow: the loader
\* A line of a scene file is the sequence of its pieces: a word, a run of
\* blanks " ", or one of the characters { } = #.  A file is its lines.
Blank == " "

RECURSIVE TrimLeft(_)
TrimLeft(line) ==
    IF line # <<>> /\ Head(line) = Blank THEN TrimLeft(Tail(line)) ELSE line

RECURSIVE TrimRight(_)
TrimRight(line) ==
    IF line # <<>> /\ line[Len(line)] = Blank
    THEN TrimRight(SubSeq(line, 1, Len(line) - 1))
    ELSE line

\* QString::trimmed
trimmed(line) == TrimRight(TrimLeft(line))

\* QString::startsWith, QString::endsWith
startsWith(line, piece) == line # <<>> /\ Head(line) = piece

endsWith(line, piece) == line # <<>> /\ line[Len(line)] = piece

\* QString::split: the parts between the separators, empty parts kept
RECURSIVE split(_, _)
split(line, sep) ==
    IF \A k \in 1..Len(line) : line[k] # sep THEN <<line>>
    ELSE LET k == CHOOSE k \in 1..Len(line) :
                      line[k] = sep /\ \A m \in 1..(k - 1) : line[m] # sep
         IN  <<SubSeq(line, 1, k - 1)>> \o split(SubSeq(line, k + 1, Len(line)), sep)

\* the value of a word that is a decimal numeral; 0 for every other word
Numeral(word) ==
    CASE word = "0" -> 0 [] word = "1" -> 1 [] word = "2" -> 2 [] word = "3" -> 3
      [] word = "7" -> 7 [] word = "15" -> 15 [] word = "20" -> 20
      [] word = "50" -> 50 [] word = "90" -> 90 [] word = "-90" -> -90
      [] word = "100" -> 100 [] word = "110" -> 110 [] word = "150" -> 150
      [] word = "200" -> 200 [] OTHER -> 0

\* a conversion that yields 1 when the text is no number
toInt_One(value) ==
    IF Len(value) = 1 /\ (Numeral(value[1]) # 0 \/ value[1] = "0")
    THEN Numeral(value[1])
    ELSE 1

\* QString::toInt / toDouble: the number, or 0 when the text is not a number
\* (the empty text of a missing key, several words, a word that is no numeral)
toInt(value) == IF Len(value) = 1 THEN Numeral(value[1]) ELSE 0

\* parseAttributes, lines 727-735: the key-value pairs of the lines that
\* have exactly one "=", in line order (QMap: a later pair overrides)
RECURSIVE KeyValuePairs(_)
KeyValuePairs(lines) ==
    IF lines = <<>> THEN <<>>
    ELSE LET parts == split(Head(lines), "=")
         IN  (IF Len(parts) = 2
              THEN << <<trimmed(parts[1]), trimmed(parts[2])>> >>
              ELSE <<>>)
             \o KeyValuePairs(Tail(lines))

\* parseAttributes: split at the line ends, drop the empty lines, parse
parseAttributes(attributes) ==
    KeyValuePairs(SelectSeq(split(attributes, "\n"), LAMBDA l : trimmed(l) # <<>>))

\* QMap::value(key): the value of the last pair with the key, else empty
value(params, key) ==
    LET ks == {k \in 1..Len(params) : params[k][1] = <<key>>}
    IN  IF ks = {} THEN <<>>
        ELSE params[CHOOSE k \in ks : \A m \in ks : m <= k][2]

\* processObject, lines 679-688: the numbers read from the attributes
Fields(attributes) ==
    LET params == parseAttributes(attributes)
    IN  [x |-> toInt(value(params, "positionX")),
         y |-> toInt(value(params, "positionY")),
         speed |-> toInt(value(params, "speed")),
         orientation |-> toInt(value(params, "orientation")),
         detectionRadius |-> toInt(value(params, "detectionRadius")),
         avoidanceAngle |-> toInt(value(params, "avoidanceAngle")),
         size |-> toInt(value(params, "width"))]

\* a processObject that makes an obstacle of a block of unknown type
processObject_UnknownAsObstacle(type, attributes, st) ==
    LET f == Fields(attributes)
        called == [st EXCEPT !.calls = Append(@, [type |-> type, attributes |-> attributes])]
    IN  IF type = <<"AutonomousRobot">>
        THEN [called EXCEPT !.A = Append(@, AutonomousRobot(f.x, f.y, f.orientation,
                                 f.detectionRadius, f.avoidanceAngle, f.speed))]
        ELSE IF type = <<"RemoteRobot">>
        THEN [called EXCEPT !.R = Append(@, RemoteRobot(f.x, f.y, f.speed, f.detectionRadius))]
        ELSE [called EXCEPT !.O = @ \cup {[x |-> f.x, y |-> f.y, width |-> f.size]}]

\* MainWindow::processObject on the loop state st: the entity is appended to
\* its list and added to the scene with no overlap check; an unknown type
\* adds nothing.  The obstacles of the scene are kept as the set of their
\* regions, so a second obstacle of the very same region adds no region.
processObject(type, attributes, st) ==
    LET f == Fields(attributes)
        called == [st EXCEPT !.calls = Append(@, [type |-> type, attributes |-> attributes])]
    IN  IF type = <<"AutonomousRobot">>
        THEN [called EXCEPT !.A = Append(@, AutonomousRobot(f.x, f.y, f.orientation,
                                 f.detectionRadius, f.avoidanceAngle, f.speed))]
        ELSE IF type = <<"RemoteRobot">>
        THEN [called EXCEPT !.R = Append(@, RemoteRobot(f.x, f.y, f.speed, f.detectionRadius))]
        ELSE IF type = <<"Obstacle">>
        THEN [called EXCEPT !.O = @ \cup {[x |-> f.x, y |-> f.y, width |-> f.size]}]
        ELSE called

\* line 659: buffer.clear()
BufferAtHeader(buffer) == <<>>

\* a close line that processes whatever type is left, open block or not
CloseLine_KeepType(st) ==
    IF st.currentType # <<>>
    THEN processObject(st.currentType, st.buffer, st)
    ELSE st

\* lines 660-665: the end of an object
CloseLine(st) ==
    IF st.currentType # <<>>
    THEN [processObject(st.currentType, st.buffer, st) EXCEPT !.currentType = <<>>]
    ELSE st

\* one turn of the while loop of loadSceneFromFile, lines 651-668
ReadLine(st, raw) ==
    LET line == trimmed(raw)
    IN  IF line = <<>> \/ startsWith(line, "#") THEN st
        ELSE IF endsWith(line, "{")
        THEN [st EXCEPT !.currentType = trimmed(SubSeq(line, 1, Len(line) - 1)),
                        !.buffer = BufferAtHeader(st.buffer)]
        ELSE IF startsWith(line, "}") THEN CloseLine(st)
        ELSE [st EXCEPT !.buffer = st.buffer \o line \o <<"\n">>]

\* the while loop over the lines of the file
RECURSIVE ReadLines(_, _)
ReadLines(lines, st) ==
    IF lines = <<>> THEN st ELSE ReadLines(Tail(lines), ReadLine(st, Head(lines)))

LoopStart(A, R, O) ==
    [A |-> A, R |-> R, O |-> O, calls |-> <<>>, currentType |-> <<>>, buffer |-> <<>>]

\* a load that applies the blocks only when the file ends outside a block
LoadFile_Staged(lines, opened, A, R, O) ==
    LET st == ReadLines(lines, LoopStart(A, R, O))
    IN  IF opened /\ st.currentType = <<>> THEN st ELSE LoopStart(A, R, O)

\* loadSceneFromFile: nothing when the file cannot be opened, else the loop
LoadFile(lines, opened, A, R, O) ==
    IF ~opened THEN LoopStart(A, R, O) ELSE ReadLines(lines, LoopStart(A, R, O))

\* the scene files tried
KeyValue(key, text) == <<key, Blank, "=", Blank, text>>

FileMixed ==
    << <<"#", Blank, "scene">>,
       <<>>,
       <<"AutonomousRobot", Blank, "{">>,
       KeyValue("positionX", "100"), KeyValue("positionY", "100"),
       <<Blank>> \o KeyValue("speed", "50"), KeyValue("orientation", "7"),
       KeyValue("detectionRadius", "50"), KeyValue("avoidanceAngle", "15"),
       KeyValue("colour", "red"),
       <<"}">>,
       <<"Wall", Blank, "{">>,
       KeyValue("positionX", "110"), KeyValue("width", "20"),
       <<"}">>,
       <<"RemoteRobot", Blank, "{">>,
       KeyValue("positionX", "200"), KeyValue("positionY", "100"),
       KeyValue("speed", "50"), KeyValue("detectionRadius", "50"),
       <<"}">> >>

FileTruncated ==
    << <<"RemoteRobot", Blank, "{">>,
       KeyValue("positionX", "200"), KeyValue("positionY", "100"),
       KeyValue("speed", "50"), KeyValue("detectionRadius", "50"),
       <<"}">>,
       <<"Obstacle", Blank, "{">>,
       KeyValue("positionX", "150"), KeyValue("positionY", "90"),
       KeyValue("width", "20") >>

FileSparse ==
    << <<"AutonomousRobot", "{">>,
       KeyValue("positionX", "200"), KeyValue("positionY", "100"),
       KeyValue("speed", "50"), KeyValue("detectionRadius", "50"),
       <<"}", Blank>>,
       <<"Obstacle", Blank, "{">>,
       <<"width", "=", "20">>,
       <<"}">> >>

FileNested ==
    << <<"}">>,
       <<"AutonomousRobot", Blank, "{">>,
       KeyValue("speed", "50"), KeyValue("detectionRadius", "50"),
       <<"RemoteRobot", Blank, "{">>,
       KeyValue("positionX", "100"), KeyValue("positionY", "100"),
       KeyValue("speed", "50") \o <<Blank, "=", Blank, "50">>,
       <<"}">>,
       <<"}">> >>

FileTurned ==
    << <<"AutonomousRobot", Blank, "{">>,
       KeyValue("positionX", "100"), KeyValue("positionY", "100"),
       KeyValue("speed", "50"), KeyValue("orientation", "2"),
       KeyValue("detectionRadius", "50"), KeyValue("avoidanceAngle", "-90"),
       KeyValue("orientation", "two"), KeyValue("orientation", "2"),
       <<"}">>,
       <<"Obstacle", Blank, "{">>,
       KeyValue("positionX", "110"), KeyValue("positionY", "90"),
       KeyValue("width", "20"),
       <<"}">> >>

Files == {FileMixed, FileTruncated, FileSparse, FileNested, FileTurned}

\* MainWindow::loadSceneFromFile(filename)
loadSceneFromFile ==
    \E file \in Files, opened \in BOOLEAN :
        LET st == LoadFile(file, opened, autonomousRobots, remoteRobots, obstacles)
        IN  /\ Len(st.A) <= MaxAuto
            /\ Len(st.R) <= MaxRemote
            /\ Cardinality(st.O) <= MaxObstacles
            /\ autonomousRobots' = st.A
            /\ remoteRobots' = st.R
            /\ obstacles' = st.O
            /\ History([Op("loadSceneFromFile") EXCEPT
                           !.file = file, !.opened = opened, !.calls = st.calls])
            /\ UNCHANGED <<selectedRobot, timerActive, ticks>>

Next ==
    \/ createRobot
    \/ createObstacle
    \/ selectRobot
    \/ startSimulation
    \/ stopSimulation
    \/ moveRobot
    \/ rotateRightButton
    \/ rotateLeftButton
    \/ stopRobot
    \/ updateRobots
    \/ clearScene

Spec == Init /\ [][Next]_vars

\* building the scene, by the dialogs and from files
LoadNext ==
    \/ loadSceneFromFile
    \/ createRobot
    \/ createObstacle
    \/ clearScene

LoadSpec == Init /\ [][LoadNext]_vars

\* ==================================================================== claims
IsTick == lastOp.op = "updateRobots"

AllRobots == {autonomousRobots[i] : i \in 1..Len(autonomousRobots)}
             \cup {remoteRobots[j] : j \in 1..Len(remoteRobots)}

\* the robots update() was called on in the last tick, in call order
Calls(log) == [k \in 1..Len(log) |-> <<log[k][1], log[k][2]>>]

Called(kind, i) == \E k \in 1..Len(updateLog) : Calls(updateLog)[k] = <<kind, i>>

Detected(kind, i) == \E k \in 1..Len(updateLog) : updateLog[k] = <<kind, i, TRUE>>

\* C1: after every completed tick the orientation of every robot, autonomous
\* or remote, is in [0, 360).
C1_OrientationInRange ==
    IsTick => \A rob \in AllRobots : rob.orientation >= 0 /\ rob.orientation < 360

\* the region a placement request asks for
RequestedArea(op) ==
    IF op.op = "createRobot" THEN CreationArea(op.x, op.y)
    ELSE CreationObstacleArea(op.x, op.y, op.width)

\* the regions of the entities in the scene
SceneRegions ==
    {RobotRect(rob) : rob \in AllRobots} \cup {ObstacleRect(o) : o \in obstacles}

\* C2: a createRobot or createObstacle whose region intersects the region of
\* an entity already in the scene is rejected and leaves both robot lists
\* and the scene's obstacles as they were.
C2_RejectedPlacementKeepsRegistry ==
    [][(/\ lastOp'.op \in {"createRobot", "createObstacle"}
        /\ \E q \in SceneRegions : Intersects(RequestedArea(lastOp'), q))
       => /\ lastOp'.conflict # "none"
          /\ autonomousRobots' = autonomousRobots
          /\ remoteRobots' = remoteRobots
          /\ obstacles' = obstacles]_vars

\* a robot was asked for on top of a robot, an obstacle on top of a robot
C2_Witness ==
    /\ lastOp.op = "createObstacle"
    /\ lastOp.conflict = "robot"
    /\ Len(remoteRobots) > 0

\* C3: the position of a remote robot changes only in a tick at whose start
\* its isMoving flag is true; with isMoving false it stays where it is over
\* every tick, whatever else is in the scene.
C3_StoppedRemoteKeepsPosition ==
    [][\A j \in 1..Min(Len(remoteRobots), Len(remoteRobots')) :
          (\/ remoteRobots'[j].positionX # remoteRobots[j].positionX
           \/ remoteRobots'[j].positionY # remoteRobots[j].positionY)
          => (lastOp'.op = "updateRobots" /\ remoteRobots[j].isMoving)]_vars

\* a tick that updated some robot and left a remote robot out
C3_Witness ==
    /\ IsTick
    /\ updateLog # <<>>
    /\ \E j \in 1..Len(remoteRobots) : ~remoteRobots[j].isMoving /\ ~Called("r", j)

\* the calls a tick makes when it updates every robot of both lists
EveryRobot(A, R) ==
    [k \in 1..Len(A) |-> <<"a", k>>] \o [k \in 1..Len(R) |-> <<"r", k>>]

\* the calls a tick makes when it leaves out the remote robots that stand
RECURSIVE MovingFrom(_, _)
MovingFrom(j, R) ==
    IF j > Len(R) THEN <<>>
    ELSE (IF R[j].isMoving THEN <<(<<"r", j>>)>> ELSE <<>>) \o MovingFrom(j + 1, R)

\* C4 as stated: a tick calls update() of every registered robot exactly
\* once, the autonomous robots in insertion order, then the remote robots in
\* insertion order.
C4_EveryRobotUpdatedOnce ==
    [][lastOp'.op = "updateRobots"
       => Calls(updateLog') = EveryRobot(autonomousRobots, remoteRobots)]_vars

\* C4 amended: a tick calls update() exactly once for every autonomous robot,
\* in insertion order, then exactly once for every remote robot whose
\* isMoving flag is true, in insertion order; a remote robot that is not
\* moving is skipped.
C4_MovingRobotsUpdatedOnce ==
    [][lastOp'.op = "updateRobots"
       => Calls(updateLog') =
              [k \in 1..Len(autonomousRobots) |-> <<"a", k>>]
              \o MovingFrom(1, remoteRobots)]_vars

\* a tick that updated an autonomous robot and then a remote robot
C4_Witness ==
    /\ IsTick
    /\ Len(updateLog) = 2
    /\ Calls(updateLog) = << <<"a", 1>>, <<"r", 1>> >>

DetectedIn(log, kind, i) == \E k \in 1..Len(log) : log[k] = <<kind, i, TRUE>>

CalledIn(log, kind, i) == \E k \in 1..Len(log) : log[k][1] = kind /\ log[k][2] = i

\* C5: a remote robot whose rotation intent is RotateLeft or RotateRight at
\* the start of a tick has its own orientation adjusted in that tick and its
\* intent back at NoRotation after it, whichever robot is selected.
C5_IntentConsumedByOwner ==
    [][lastOp'.op = "updateRobots"
       => \A j \in 1..Len(remoteRobots) :
             remoteRobots[j].rotationDirection \in {RotateLeft, RotateRight}
             => /\ remoteRobots'[j].rotationDirection = NoRotation
                /\ remoteRobots'[j].orientation # remoteRobots[j].orientation]_vars

\* C6: a moving remote robot that detects something in its update is not
\* moving after that tick; from then on isMoving turns true only by
\* moveRobot on the selected robot, and the position stays the same over
\* every step taken while isMoving is false.
C6_DetectionStopsRemote ==
    [][/\ lastOp'.op = "updateRobots"
          => \A j \in 1..Len(remoteRobots) :
                DetectedIn(updateLog', "r", j) => ~remoteRobots'[j].isMoving
       /\ \A j \in 1..Min(Len(remoteRobots), Len(remoteRobots')) :
             ~remoteRobots[j].isMoving
             => /\ remoteRobots'[j].positionX = remoteRobots[j].positionX
                /\ remoteRobots'[j].positionY = remoteRobots[j].positionY
                /\ remoteRobots'[j].isMoving
                   => (lastOp'.op = "moveRobot" /\ selectedRobot = j)]_vars

\* a remote robot was updated, saw something and stands
C6_Witness ==
    /\ IsTick
    /\ \E j \in 1..Len(remoteRobots) :
          /\ Detected("r", j)
          /\ ~remoteRobots[j].isMoving
          /\ remoteRobots[j].positionX # 100 * Scale

\* C7: in a tick where an autonomous robot detects something its orientation
\* becomes (orientation + avoidance angle) normalized into [0, 360) and its
\* position still advances; in a tick where it detects nothing its
\* orientation is unchanged.
C7_AvoidanceTurnNormalized ==
    [][lastOp'.op = "updateRobots"
       => \A i \in 1..Len(autonomousRobots) :
             LET old == autonomousRobots[i]
                 new == autonomousRobots'[i]
             IN  /\ (new.positionX # old.positionX \/ new.positionY # old.positionY)
                 /\ IF DetectedIn(updateLog', "a", i)
                    THEN new.orientation = (old.orientation + old.avoidanceAngle) % 360
                    ELSE new.orientation = old.orientation]_vars

RemoteCommands == {"moveRobot", "rotateRobotRight", "rotateRobotLeft", "stopRobot"}

\* C8: after clearScene both robot lists are empty, the scene holds no
\* obstacle, no robot is selected, and a tick or a remote command that
\* follows leaves the registry empty.
C8_ClearEmptiesRegistry ==
    [][/\ lastOp'.op = "clearScene"
          => /\ autonomousRobots' = <<>>
             /\ remoteRobots' = <<>>
             /\ obstacles' = {}
             /\ selectedRobot' = 0
       /\ (lastOp.op = "clearScene" /\ lastOp'.op \in RemoteCommands \cup {"updateRobots"})
          => /\ autonomousRobots' = <<>>
             /\ remoteRobots' = <<>>
             /\ obstacles' = {}
             /\ selectedRobot' = 0
             /\ updateLog' = <<>>]_vars

\* a scene with robots, an obstacle and a selected robot was cleared
C8_Witness ==
    /\ lastOp.op = "clearScene"
    /\ lastOp.items >= 3
    /\ lastOp.sel # 0
    /\ ticks > 0

\* 10% of speed, in model units
TenthOfSpeed(rob) == (rob.speed * Scale) \div 10

\* the displacement of one update of a robot that started it as old
MovedTenth(old, new) ==
    LET dx == new.positionX - old.positionX
        dy == new.positionY - old.positionY
        o == old.orientation % 360
    IN  /\ dx = old.speed * Cos100(old.orientation)
        /\ dy = old.speed * Sin100(old.orientation)
        /\ o = 0 => (dx = TenthOfSpeed(old) /\ dy = 0)
        /\ o = 90 => (dx = 0 /\ dy = TenthOfSpeed(old))
        /\ o = 180 => (dx = -TenthOfSpeed(old) /\ dy = 0)
        /\ o = 270 => (dx = 0 /\ dy = -TenthOfSpeed(old))

\* C9: every robot updated in a tick moves by exactly 10% of its speed along
\* the heading it had at the start of the update (on one axis only for the
\* headings 0, 90, 180, 270); an updated remote robot moves toward heading 0.
C9_TenthOfSpeedAlongHeading ==
    [][lastOp'.op = "updateRobots"
       => /\ \A i \in 1..Len(autonomousRobots) :
                MovedTenth(autonomousRobots[i], autonomousRobots'[i])
          /\ \A j \in 1..Len(remoteRobots) :
                CalledIn(updateLog', "r", j)
                => /\ MovedTenth(remoteRobots[j], remoteRobots'[j])
                   /\ remoteRobots[j].orientation = 0
                      => /\ remoteRobots'[j].positionX
                               = remoteRobots[j].positionX + TenthOfSpeed(remoteRobots[j])
                         /\ remoteRobots'[j].positionY = remoteRobots[j].positionY]_vars

\* a remote robot and an autonomous robot heading 270 were updated
C9_Witness ==
    /\ IsTick
    /\ Called("r", 1)
    /\ \E i \in 1..Len(autonomousRobots) :
          autonomousRobots[i].positionY < 100 * Scale - TenthOfSpeed(autonomousRobots[i])

\* A tick in which every update reads the poses of the other robots as they
\* were when the tick began (snapA, snapR)
RECURSIVE SnapshotAutonomous(_, _, _, _, _)
SnapshotAutonomous(i, w, O, snapA, snapR) ==
    IF i > Len(w.A) THEN w
    ELSE LET u == AutonomousRobot_update(w.A[i], OtherItems("a", i, snapA, snapR, O))
         IN  SnapshotAutonomous(i + 1, [w EXCEPT !.A[i] = u.rob], O, snapA, snapR)

RECURSIVE SnapshotRemote(_, _, _, _, _, _, _)
SnapshotRemote(j, w, O, sel, active, snapA, snapR) ==
    IF j > Len(w.R) THEN w
    ELSE LET R1 == HandleRotation(w.R[j], w.R, sel, active)
         IN  IF ShouldUpdate(R1[j])
             THEN LET u == RemoteRobot_update(R1[j], OtherItems("r", j, snapA, snapR, O))
                  IN  SnapshotRemote(j + 1, [w EXCEPT !.R = [R1 EXCEPT ![j] = u.rob]],
                                     O, sel, active, snapA, snapR)
             ELSE SnapshotRemote(j + 1, [w EXCEPT !.R = R1], O, sel, active, snapA, snapR)

SnapshotTick(A, R, O, sel, active) ==
    SnapshotRemote(1, SnapshotAutonomous(1, [A |-> A, R |-> R], O, A, R),
                   O, sel, active, A, R)

\* C10: the result of a tick equals the result of a tick in which every
\* robot's update reads a snapshot of the poses at the start of the tick.
C10_TickReadsSnapshot ==
    [][lastOp'.op = "updateRobots"
       => LET w == SnapshotTick(autonomousRobots, remoteRobots, obstacles,
                                selectedRobot, timerActive)
          IN  autonomousRobots' = w.A /\ remoteRobots' = w.R]_vars

\* ------------------------------------------------------ claims on loading
IsLoad(op) == op.op = "loadSceneFromFile"

Recognized == {<<"AutonomousRobot">>, <<"RemoteRobot">>, <<"Obstacle">>}

\* the processObject calls of a load that name a recognized type
Made(calls) == SelectSeq(calls, LAMBDA c : c.type \in Recognized)

\* the entity a processObject call makes
EntityOf(call) ==
    LET st == processObject(call.type, call.attributes, LoopStart(<<>>, <<>>, {}))
    IN  IF call.type = <<"AutonomousRobot">> THEN st.A[1]
        ELSE IF call.type = <<"RemoteRobot">> THEN st.R[1]
        ELSE CHOOSE o \in st.O : TRUE

RegionOf(call) ==
    IF call.type = <<"Obstacle">> THEN ObstacleRect(EntityOf(call))
    ELSE RobotRect(EntityOf(call))

\* the entities made by the calls of one type, in call order
Entities(calls, type) ==
    LET sel == SelectSeq(calls, LAMBDA c : c.type = type)
    IN  [k \in 1..Len(sel) |-> EntityOf(sel[k])]

\* the scene after the first k calls of a load
RECURSIVE SceneAfter(_, _, _, _, _)
SceneAfter(calls, k, A, R, O) ==
    IF k = 0 THEN LoopStart(A, R, O)
    ELSE processObject(calls[k].type, calls[k].attributes,
                       SceneAfter(calls, k - 1, A, R, O))

RegionsOf(st) ==
    {RobotRect(st.A[i]) : i \in 1..Len(st.A)}
    \cup {RobotRect(st.R[j]) : j \in 1..Len(st.R)}
    \cup {ObstacleRect(o) : o \in st.O}

\* C11: whenever an entity is created, by createRobot, by createObstacle or
\* by a block that loadSceneFromFile applies through processObject, its
\* region overlaps the region of no entity that is in the scene at that
\* moment.
C11_NoOverlapAtCreation ==
    [][/\ (/\ lastOp'.op = "createRobot"
           /\ Len(autonomousRobots') > Len(autonomousRobots))
          => \A q \in SceneRegions :
                 ~Intersects(RobotRect(autonomousRobots'[Len(autonomousRobots')]), q)
       /\ (/\ lastOp'.op = "createRobot"
           /\ Len(remoteRobots') > Len(remoteRobots))
          => \A q \in SceneRegions :
                 ~Intersects(RobotRect(remoteRobots'[Len(remoteRobots')]), q)
       /\ lastOp'.op = "createObstacle"
          => \A o \in obstacles' \ obstacles : \A q \in SceneRegions :
                 ~Intersects(ObstacleRect(o), q)
       /\ IsLoad(lastOp')
          => \A k \in 1..Len(lastOp'.calls) :
                 lastOp'.calls[k].type \in Recognized
                 => \A q \in RegionsOf(SceneAfter(lastOp'.calls, k - 1,
                                autonomousRobots, remoteRobots, obstacles)) :
                        ~Intersects(RegionOf(lastOp'.calls[k]), q)]_vars

\* the shape of a file, line by line
Skipped(raw) == trimmed(raw) = <<>> \/ startsWith(trimmed(raw), "#")

IsHeader(raw) == ~Skipped(raw) /\ endsWith(trimmed(raw), "{")

IsClose(raw) == ~Skipped(raw) /\ ~IsHeader(raw) /\ startsWith(trimmed(raw), "}")

TypeOf(raw) == trimmed(SubSeq(trimmed(raw), 1, Len(trimmed(raw)) - 1))

\* lines h..c are a block: a header, its close, and only key lines between
IsBlock(file, h, c) ==
    /\ h < c
    /\ IsHeader(file[h])
    /\ IsClose(file[c])
    /\ \A m \in (h + 1)..(c - 1) : ~IsHeader(file[m]) /\ ~IsClose(file[m])

\* the key lines from..to of a file, each trimmed and ended
RECURSIVE KeyLines(_, _, _)
KeyLines(file, from, to) ==
    IF from > to THEN <<>>
    ELSE (IF Skipped(file[from]) THEN <<>> ELSE trimmed(file[from]) \o <<"\n">>)
         \o KeyLines(file, from + 1, to)

\* one call for each block with a type among the first n lines, in file order
RECURSIVE ExpectedCalls(_, _)
ExpectedCalls(file, n) ==
    IF n = 0 THEN <<>>
    ELSE ExpectedCalls(file, n - 1)
         \o (IF \E h \in 1..n : IsBlock(file, h, n) /\ TypeOf(file[h]) # <<>>
             THEN LET h == CHOOSE h \in 1..n : IsBlock(file, h, n)
                  IN  <<[type |-> TypeOf(file[h]),
                         attributes |-> KeyLines(file, h + 1, n - 1)]>>
             ELSE <<>>)

\* line k belongs to a block of a type that is not recognized
InUnknownBlock(file, k) ==
    \E h \in 1..k, c \in k..Len(file) :
        IsBlock(file, h, c) /\ TypeOf(file[h]) \notin Recognized

\* the first n lines of the file without the blocks of unrecognized type
RECURSIVE WithoutUnknownBlocks(_, _)
WithoutUnknownBlocks(file, n) ==
    IF n = 0 THEN <<>>
    ELSE WithoutUnknownBlocks(file, n - 1)
         \o (IF InUnknownBlock(file, n) THEN <<>> ELSE <<file[n]>>)

\* for each file tried: its lines without the unknown blocks, and its calls
KnownLines == [file \in Files |-> WithoutUnknownBlocks(file, Len(file))]

BlockCalls == [file \in Files |-> ExpectedCalls(file, Len(file))]

\* C12: a load leaves the scene that the load of the same file without its
\* blocks of unrecognized type leaves: such a block creates nothing, the
\* recognized blocks create the entities they create without it, and the
\* entities are appended in the order of the blocks in the file.
C12_UnknownBlockSkipped ==
    [][(IsLoad(lastOp') /\ lastOp'.opened)
       => LET file == lastOp'.file
              st == LoadFile(KnownLines[file], TRUE,
                             autonomousRobots, remoteRobots, obstacles)
              made == Made(lastOp'.calls)
          IN  /\ autonomousRobots' = st.A
              /\ remoteRobots' = st.R
              /\ obstacles' = st.O
              /\ made = st.calls
              /\ made = Made(BlockCalls[file])
              /\ autonomousRobots' =
                     autonomousRobots \o Entities(made, <<"AutonomousRobot">>)
              /\ remoteRobots' = remoteRobots \o Entities(made, <<"RemoteRobot">>)
              /\ obstacles' = obstacles \cup
                     {EntityOf(c) : c \in {made[k] : k \in
                         {k \in 1..Len(made) : made[k].type = <<"Obstacle">>}}}]_vars

\* a file with a Wall block between two robots was loaded
C12_Witness ==
    /\ IsLoad(lastOp)
    /\ lastOp.opened
    /\ lastOp.file = FileMixed
    /\ Len(lastOp.calls) = 3
    /\ Len(autonomousRobots) = 1
    /\ Len(remoteRobots) = 1
    /\ obstacles = {}

\* the degrees an orientation code stands for
StartDegrees(code) ==
    CASE code = 0 -> 270 [] code = 1 -> 0 [] code = 2 -> 90 [] code = 3 -> 180
      [] OTHER -> 0

\* the attributes have a line "key = value" for the key
HasKey(attributes, key) ==
    LET lines == split(attributes, "\n")
    IN  \E k \in 1..Len(lines) :
            LET parts == split(lines[k], "=")
            IN  Len(parts) = 2 /\ trimmed(parts[1]) = <<key>>

AutonomousCalls(calls) == SelectSeq(calls, LAMBDA c : c.type = <<"AutonomousRobot">>)

\* an autonomous robot starts at the degrees of the code it is created with
StartsAtCode ==
    /\ (/\ lastOp'.op = "createRobot"
        /\ Len(autonomousRobots') > Len(autonomousRobots))
       => autonomousRobots'[Len(autonomousRobots')].orientation
              = StartDegrees(lastOp'.code)
    /\ IsLoad(lastOp')
       => LET made == AutonomousCalls(lastOp'.calls)
          IN  \A k \in 1..Len(made) :
                  autonomousRobots'[Len(autonomousRobots) + k].orientation
                      = StartDegrees(Fields(made[k].attributes).orientation)

\* a loaded block without an orientation key starts at the given degrees
StartsWithoutKeyAt(degrees) ==
    IsLoad(lastOp')
    => LET made == AutonomousCalls(lastOp'.calls)
       IN  \A k \in 1..Len(made) :
               ~HasKey(made[k].attributes, "orientation")
               => autonomousRobots'[Len(autonomousRobots) + k].orientation = degrees

\* C13 as stated: codes 0, 1, 2, 3 start at 270, 0, 90, 180 degrees and any
\* other code at 0 degrees; a loaded AutonomousRobot block with no
\* orientation key starts at 0 degrees.
C13_MissingOrientationFacesRight ==
    [][StartsAtCode /\ StartsWithoutKeyAt(0)]_vars

\* C13: codes 0, 1, 2, 3 start at 270, 0, 90, 180 degrees and any other code
\* at 0 degrees; a loaded AutonomousRobot block with no orientation key is
\* created with code 0 and starts at 270 degrees.
C13_MissingOrientationIsCodeZero ==
    [][StartsAtCode /\ StartsWithoutKeyAt(270)]_vars

\* a block without an orientation key was loaded
C13_Witness ==
    /\ IsLoad(lastOp)
    /\ lastOp.file = FileSparse
    /\ Len(lastOp.calls) = 2
    /\ ~HasKey(lastOp.calls[1].attributes, "orientation")
    /\ autonomousRobots # <<>>
    /\ autonomousRobots[Len(autonomousRobots)].orientation = 270

NumericKeys == {"positionX", "positionY", "speed", "detectionRadius",
                "avoidanceAngle", "width"}

RecognizedKeys == NumericKeys \cup {"orientation"}

\* the lines of the attributes whose key is recognized
RECURSIVE RecognizedLines(_)
RecognizedLines(lines) ==
    IF lines = <<>> THEN <<>>
    ELSE LET parts == split(Head(lines), "=")
         IN  (IF Len(parts) = 2 /\ \E key \in RecognizedKeys : trimmed(parts[1]) = <<key>>
              THEN Head(lines) \o <<"\n">>
              ELSE <<>>)
             \o RecognizedLines(Tail(lines))

\* the value an entity holds for a key of the file format
FieldOf(call, key) ==
    LET e == EntityOf(call)
        isObstacle == call.type = <<"Obstacle">>
    IN  CASE key = "positionX" -> IF isObstacle THEN e.x ELSE e.positionX
          [] key = "positionY" -> IF isObstacle THEN e.y ELSE e.positionY
          [] key = "width" -> IF isObstacle THEN e.width ELSE 0
          [] key = "speed" -> IF isObstacle THEN 0 ELSE e.speed
          [] key = "detectionRadius" -> IF isObstacle THEN 0 ELSE e.detectionRadius
          [] key = "avoidanceAngle" ->
                 IF call.type = <<"AutonomousRobot">> THEN e.avoidanceAngle ELSE 0

\* C14: a loaded block of a recognized type creates its entity also when a
\* numeric key is missing, the field of a missing key is zero, and the lines
\* of keys that are not recognized change no field of the entity.
C14_MissingKeyIsZero ==
    [][IsLoad(lastOp')
       => LET made == Made(lastOp'.calls)
          IN  /\ Len(autonomousRobots') + Len(remoteRobots')
                     = Len(autonomousRobots) + Len(remoteRobots)
                       + Len(Entities(made, <<"AutonomousRobot">>))
                       + Len(Entities(made, <<"RemoteRobot">>))
              /\ \A k \in 1..Len(made) :
                     /\ made[k].type = <<"Obstacle">> => EntityOf(made[k]) \in obstacles'
                     /\ made[k].type = <<"AutonomousRobot">>
                        => \E i \in 1..Len(autonomousRobots') :
                               autonomousRobots'[i] = EntityOf(made[k])
                     /\ made[k].type = <<"RemoteRobot">>
                        => \E j \in 1..Len(remoteRobots') :
                               remoteRobots'[j] = EntityOf(made[k])
                     /\ \A key \in NumericKeys :
                            ~HasKey(made[k].attributes, key) => FieldOf(made[k], key) = 0
                     /\ EntityOf([made[k] EXCEPT !.attributes =
                            RecognizedLines(split(made[k].attributes, "\n"))])
                        = EntityOf(made[k])]_vars

\* blocks that lack keys were loaded: a robot without avoidanceAngle and an
\* obstacle with a width alone
C14_Witness ==
    /\ IsLoad(lastOp)
    /\ lastOp.file = FileSparse
    /\ [x |-> 0, y |-> 0, width |-> 20] \in obstacles
    /\ \E i \in 1..Len(autonomousRobots) :
           /\ autonomousRobots[i].avoidanceAngle = 0
           /\ autonomousRobots[i].positionX = 200 * Scale

\* ------------------------------------------- claims on the remote commands
\* the selected robot, before and after a step
Selected == remoteRobots[selectedRobot]

SelectedAfter == remoteRobots'[selectedRobot]

HitsRobot(area) == \E rob \in AllRobots : Intersects(area, RobotRect(rob))

HitsObstacle(area) == \E o \in obstacles : Intersects(area, ObstacleRect(o))

\* C16: a rejected createRobot or createObstacle reports 'both' when the
\* requested region intersects a robot and an obstacle, 'robot' when it
\* intersects robots only, 'obstacle' when it intersects obstacles only; it
\* is never rejected with no kind reported, and a placement that is not
\* rejected reports none.
C16_ConflictKindExact ==
    [][lastOp'.op \in {"createRobot", "createObstacle"}
       => LET area == RequestedArea(lastOp')
              rejected == lastOp'.items > 0
          IN  /\ rejected <=> (HitsRobot(area) \/ HitsObstacle(area))
              /\ rejected <=> lastOp'.conflict # "none"
              /\ lastOp'.conflict = "both" <=> (HitsRobot(area) /\ HitsObstacle(area))
              /\ lastOp'.conflict = "robot" <=> (HitsRobot(area) /\ ~HitsObstacle(area))
              /\ lastOp'.conflict = "obstacle"
                 <=> (~HitsRobot(area) /\ HitsObstacle(area))]_vars

\* a robot was asked for where a robot and an obstacle are
C16_Witness ==
    /\ lastOp.op = "createRobot"
    /\ lastOp.conflict = "both"
    /\ HitsRobot(RequestedArea(lastOp))
    /\ HitsObstacle(RequestedArea(lastOp))

\* s is the beginning of t
IsPrefix(s, t) == Len(s) <= Len(t) /\ SubSeq(t, 1, Len(s)) = s

\* for each file tried, what the load of each of its beginnings leaves of an
\* empty scene
Beginnings ==
    [file \in Files |->
        [n \in 0..Len(file) |-> LoadFile(SubSeq(file, 1, n), TRUE, <<>>, <<>>, {})]]

\* C17: a load of a file that cannot be opened makes no call and leaves both
\* robot lists and the obstacles as they were; a load of a file that opens
\* has applied, for every beginning of the file, the blocks closed in that
\* beginning, whatever follows them in the file.
C17_OpenFailureAndStreaming ==
    [][IsLoad(lastOp')
       => /\ ~lastOp'.opened
             => /\ lastOp'.calls = <<>>
                /\ autonomousRobots' = autonomousRobots
                /\ remoteRobots' = remoteRobots
                /\ obstacles' = obstacles
          /\ lastOp'.opened
             => \A n \in 0..Len(lastOp'.file) :
                    LET st == Beginnings[lastOp'.file][n]
                    IN  /\ IsPrefix(st.calls, lastOp'.calls)
                        /\ IsPrefix(autonomousRobots \o st.A, autonomousRobots')
                        /\ IsPrefix(remoteRobots \o st.R, remoteRobots')
                        /\ st.O \subseteq obstacles']_vars

\* the robot of a file that ends within an Obstacle block was loaded
C17_Witness ==
    /\ IsLoad(lastOp)
    /\ lastOp.opened
    /\ lastOp.file = FileTruncated
    /\ Len(lastOp.calls) = 1
    /\ remoteRobots # <<>>
    /\ remoteRobots[Len(remoteRobots)].positionX = 200 * Scale

\* C18: moveRobot, rotateRobotLeft and rotateRobotRight change nothing
\* unless a robot is selected and the timer is active, and then set the
\* moving flag or the rotation intent of the selected robot; stopRobot
\* clears the moving flag of the selected robot whether or not the timer is
\* active, and changes nothing when no robot is selected.
C18_CommandsGated ==
    [][/\ (/\ lastOp'.op \in {"moveRobot", "rotateRobotLeft", "rotateRobotRight"}
           /\ ~(selectedRobot # 0 /\ timerActive))
          => remoteRobots' = remoteRobots
       /\ (lastOp'.op = "moveRobot" /\ selectedRobot # 0 /\ timerActive)
          => SelectedAfter.isMoving
       /\ (lastOp'.op = "rotateRobotLeft" /\ selectedRobot # 0 /\ timerActive)
          => SelectedAfter.rotationDirection = RotateLeft
       /\ (lastOp'.op = "rotateRobotRight" /\ selectedRobot # 0 /\ timerActive)
          => SelectedAfter.rotationDirection = RotateRight
       /\ (lastOp'.op = "stopRobot" /\ selectedRobot # 0)
          => ~SelectedAfter.isMoving
       /\ (lastOp'.op = "stopRobot" /\ selectedRobot = 0)
          => remoteRobots' = remoteRobots
       /\ lastOp'.op \in RemoteCommands
          => \A j \in 1..Len(remoteRobots) :
                 j # selectedRobot => remoteRobots'[j] = remoteRobots[j]]_vars

\* a turn was asked of the selected robot while the timer was stopped, and
\* the robot has no intent
C18_Witness ==
    /\ lastOp.op = "rotateRobotRight"
    /\ selectedRobot # 0
    /\ ~timerActive
    /\ ticks > 0
    /\ Selected.rotationDirection = NoRotation

\* position and orientation
Pose(rob) == <<rob.positionX, rob.positionY, rob.orientation>>

\* the robots that are there before and after a step keep their poses
PosesKept ==
    /\ \A i \in 1..Min(Len(autonomousRobots), Len(autonomousRobots')) :
           Pose(autonomousRobots'[i]) = Pose(autonomousRobots[i])
    /\ \A j \in 1..Min(Len(remoteRobots), Len(remoteRobots')) :
           Pose(remoteRobots'[j]) = Pose(remoteRobots[j])

\* C19: a tick happens only while the timer is active; stopSimulation
\* leaves the timer inactive and only startSimulation activates it; while
\* the timer is inactive no step changes the pose of a robot; a
\* startSimulation while active and a stopSimulation while inactive change
\* nothing.
C19_TicksOnlyWhileStarted ==
    [][/\ lastOp'.op = "updateRobots" => timerActive
       /\ lastOp'.op = "stopSimulation" => ~timerActive'
       /\ lastOp'.op = "startSimulation" => timerActive'
       /\ (~timerActive /\ timerActive') => lastOp'.op = "startSimulation"
       /\ ~timerActive => PosesKept /\ ticks' = ticks
       /\ (\/ lastOp'.op = "startSimulation" /\ timerActive
           \/ lastOp'.op = "stopSimulation" /\ ~timerActive)
          => UNCHANGED <<autonomousRobots, remoteRobots, obstacles,
                         selectedRobot, timerActive, ticks>>]_vars

\* the simulation was stopped after a tick while a remote robot was moving
C19_Witness ==
    /\ lastOp.op = "stopSimulation"
    /\ ~timerActive
    /\ ticks > 0
    /\ \E j \in 1..Len(remoteRobots) : remoteRobots[j].isMoving

\* the number of lines of the file that close
CloseLines(file) == Cardinality({k \in 1..Len(file) : IsClose(file[k])})

\* C20: a load calls processObject once for each close line that ends a
\* block with a type (a header line before it, with no other header line
\* and no close line between them), with the type of that header and the
\* key lines between the two, and for nothing else: not for a header that
\* is never closed, not for a close line with no open block, not for a
\* header that another header follows; the entities created are at most as
\* many as the calls, and the calls at most as many as the close lines.
C20_CreatedOnlyAtClose ==
    [][(IsLoad(lastOp') /\ lastOp'.opened)
       => /\ lastOp'.calls = BlockCalls[lastOp'.file]
          /\ Len(lastOp'.calls) <= CloseLines(lastOp'.file)
          /\ Len(autonomousRobots') - Len(autonomousRobots)
             + Len(remoteRobots') - Len(remoteRobots)
             + Cardinality(obstacles' \ obstacles)
                 <= Len(lastOp'.calls)]_vars

\* a file with a close line before any header, a header followed by a
\* header, and two close lines in a row was loaded and made one robot
C20_Witness ==
    /\ IsLoad(lastOp)
    /\ lastOp.opened
    /\ lastOp.file = FileNested
    /\ CloseLines(FileNested) = 3
    /\ Len(lastOp.calls) = 1
    /\ lastOp.calls[1].type = <<"RemoteRobot">>
    /\ ~HasKey(lastOp.calls[1].attributes, "detectionRadius")
    /\ remoteRobots # <<>>
    /\ remoteRobots[Len(remoteRobots)].detectionRadius = 0

====
